---- MODULE Spec2Model ----
(***************************************************************************)
(* A model of api-stashing-bqgcs.py: the JSONLogger helper and the DadJoke *)
(* workflow (get, store_object, store_table, __call__, entrypoint).        *)
(*                                                                         *)
(* Python values are tagged records [t, s, n, items]: "str" a string s,    *)
(* "int" a number n, "obj" an object json cannot serialise (s is its       *)
(* name), "dict" a sequence items of <<key, value>> pairs in insertion     *)
(* order, "list" a sequence items of values, "text" a string that holds    *)
(* JSON text (items is its token sequence).                                *)
(* JSON text is a sequence of tokens [k, s, n, sub]: punctuation s, a      *)
(* string s, a number n, or a string that holds the JSON text sub.         *)
(***************************************************************************)
EXTENDS Integers, Sequences, FiniteSets, Bags, TLC

VARIABLES
    now,        \* the wall clock read by time.time(), time.time_ns(), datetime.now()
    responses,  \* responses[o]: the list self.responses of the o-th DadJoke object constructed
    pc,         \* pc[i]: where invocation i of __call__ stands
    self,       \* self[i]: the DadJoke object invocation i runs on (0: none yet)
    begin,      \* begin[i]: the local `begin` of __call__
    blob,       \* blob[i]: the local `blob` of __call__ (the handle store_object returned)
    bq_res,     \* bq_res[i]: the local `bq_res` of __call__
    bucket,     \* the storage bucket: object name -> uploaded text
    table,      \* the warehouse table: the bag of the rows appended so far
    sink,       \* sink[i]: what invocation i handed to logging.log, in order
    trace,      \* trace[i]: the calls, returns and raises of invocation i, in order
    received,   \* received[o]: the HTTP responses the gets of object o received, in order
    uploaded,   \* uploaded[i]: the texts invocation i uploaded with upload_from_string
    loaded,     \* loaded[i]: the newline-delimited payloads invocation i passed to the load job
    lcall,      \* the JSONLogger call under test
    lout        \* what that call did

vars == <<now, responses, pc, self, begin, blob, bq_res, bucket, table,
          sink, trace, received, uploaded, loaded, lcall, lout>>

flowVars == <<now, responses, pc, self, begin, blob, bq_res, bucket, table,
              sink, trace, received, uploaded, loaded>>

(***************************************************************************)
(* Bounds                                                                  *)
(***************************************************************************)
MaxInvocations == 2   \* invocations of __call__ in one process
MaxTime == 1          \* the clock runs from 0 to MaxTime
MaxGets == 3          \* direct calls of get on one object

Inv == 1..MaxInvocations
\* the callers of get: the invocations, and 0 for a call made outside any invocation
Callers == 0..MaxInvocations

(***************************************************************************)
(* Python values and json.dumps                                            *)
(***************************************************************************)
PyStr(s)   == [t |-> "str",  s |-> s,  n |-> 0, items |-> <<>>]
PyInt(n)   == [t |-> "int",  s |-> "", n |-> n, items |-> <<>>]
PyObj(o)   == [t |-> "obj",  s |-> o,  n |-> 0, items |-> <<>>]
PyDict(ps) == [t |-> "dict", s |-> "", n |-> 0, items |-> ps]
PyList(xs) == [t |-> "list", s |-> "", n |-> 0, items |-> xs]
PyText(ts) == [t |-> "text", s |-> "", n |-> 0, items |-> ts]

Punct(c)    == [k |-> "punct", s |-> c,  n |-> 0, sub |-> <<>>]
StrTok(s)   == [k |-> "str",   s |-> s,  n |-> 0, sub |-> <<>>]
IntTok(n)   == [k |-> "int",   s |-> "", n |-> n, sub |-> <<>>]
TextTok(ts) == [k |-> "text",  s |-> "", n |-> 0, sub |-> ts]

\* The converters a caller can hand to json.dumps as `default`.
Converters == {"str", "repr", "None"}

\* str(o) and repr(o) of an object json cannot serialise.
Convert(conv, o) == IF conv = "str" THEN PyStr("str(" \o o \o ")")
                                    ELSE PyStr("repr(" \o o \o ")")

RECURSIVE Serialisable(_, _)
Serialisable(x, conv) ==
    CASE x.t = "obj"  -> conv # "None"
      [] x.t = "dict" -> \A n \in 1..Len(x.items) : Serialisable(x.items[n][2], conv)
      [] x.t = "list" -> \A n \in 1..Len(x.items) : Serialisable(x.items[n], conv)
      [] OTHER        -> TRUE

RECURSIVE Encode(_, _)
RECURSIVE EncodeItems(_, _, _)
RECURSIVE EncodePairs(_, _, _)

\* items n.. of a list, comma separated
EncodeItems(xs, n, conv) ==
    IF n > Len(xs) THEN <<>>
    ELSE (IF n > 1 THEN <<Punct(",")>> ELSE <<>>)
         \o Encode(xs[n], conv) \o EncodeItems(xs, n + 1, conv)

\* pairs n.. of a dict, comma separated
EncodePairs(ps, n, conv) ==
    IF n > Len(ps) THEN <<>>
    ELSE (IF n > 1 THEN <<Punct(",")>> ELSE <<>>)
         \o <<StrTok(ps[n][1]), Punct(":")>> \o Encode(ps[n][2], conv)
         \o EncodePairs(ps, n + 1, conv)

Encode(x, conv) ==
    CASE x.t = "str"  -> <<StrTok(x.s)>>
      [] x.t = "int"  -> <<IntTok(x.n)>>
      [] x.t = "text" -> <<TextTok(x.items)>>
      [] x.t = "obj"  -> Encode(Convert(conv, x.s), conv)
      [] x.t = "dict" -> <<Punct("{")>> \o EncodePairs(x.items, 1, conv) \o <<Punct("}")>>
      [] x.t = "list" -> <<Punct("[")>> \o EncodeItems(x.items, 1, conv) \o <<Punct("]")>>

\* json.dumps(x, default=conv): the text, or a TypeError when a value cannot be
\* serialised and there is no converter.
json_dumps(x, conv) ==
    IF Serialisable(x, conv) THEN [ok |-> TRUE, text |-> Encode(x, conv)]
                             ELSE [ok |-> FALSE, text |-> <<>>]

(***************************************************************************)
(* JSONLogger                                                              *)
(***************************************************************************)
DEBUG == 10
INFO == 20
WARNING == 30
ERROR == 40
CRITICAL == 50

NoKwargs == [n \in {} |-> ""]

\* logging.log(level, msg, *args, **kwargs): the record handed to the sink.
Forwarded(level, text, args, kwargs) ==
    [out |-> "forwarded", level |-> level, msg |-> text, args |-> args, kwargs |-> kwargs]

\* The call raised instead of reaching the sink.
Raised(exc) ==
    [out |-> exc, level |-> 0, msg |-> <<>>, args |-> <<>>, kwargs |-> NoKwargs]

Without(kwargs, name) == [n \in (DOMAIN kwargs) \ {name} |-> kwargs[n]]

\* JSONLogger.log(level, msg, *args, default=str, **kwargs)
log(level, msg, args, kwargs) ==
    LET default == IF "default" \in DOMAIN kwargs THEN kwargs["default"] ELSE "str"
        dumped  == json_dumps(msg, default)
    IN  IF dumped.ok THEN Forwarded(level, dumped.text, args, Without(kwargs, "default"))
                     ELSE Raised("TypeError")

\* JSONLogger.debug(msg, *args, **kwargs): `default` is no parameter of debug, so
\* a caller's default stays in kwargs and meets the default=str of the call to log.
debug(msg, args, kwargs) ==
    IF "default" \in DOMAIN kwargs
    THEN Raised("TypeError")
    ELSE log(DEBUG, msg, args, ("default" :> "str") @@ kwargs)

\* JSONLogger.info(msg, *args, default=str, **kwargs): the parameter `default`
\* takes the caller's converter and the call to log passes default=str.
info(msg, args, kwargs) ==
    log(INFO, msg, args, ("default" :> "str") @@ Without(kwargs, "default"))

warning(msg, args, kwargs) ==
    log(WARNING, msg, args, ("default" :> "str") @@ Without(kwargs, "default"))

error(msg, args, kwargs) ==
    log(ERROR, msg, args, ("default" :> "str") @@ Without(kwargs, "default"))

critical(msg, args, kwargs) ==
    log(CRITICAL, msg, args, ("default" :> "str") @@ Without(kwargs, "default"))

(***************************************************************************)
(* json.loads, for texts that hold a scalar, a flat object or a list of     *)
(* flat objects (what store_object uploads and what the load job reads)    *)
(***************************************************************************)
DecodeScalar(tok) ==
    CASE tok.k = "str"  -> PyStr(tok.s)
      [] tok.k = "int"  -> PyInt(tok.n)
      [] tok.k = "text" -> PyText(tok.sub)

\* ts is "{" key ":" value ("," key ":" value)* "}" or "{" "}"
DecodeObject(ts) ==
    PyDict([n \in 1..((Len(ts) - 1) \div 4) |-> <<ts[4 * n - 2].s, DecodeScalar(ts[4 * n])>>])

\* the least position >= n of ts that holds "}"
RECURSIVE ObjectEnd(_, _)
ObjectEnd(ts, n) == IF ts[n] = Punct("}") THEN n ELSE ObjectEnd(ts, n + 1)

\* the objects of a list text, from position n (just after "[" or ",")
RECURSIVE DecodeObjects(_, _)
DecodeObjects(ts, n) ==
    IF ts[n] = Punct("]") THEN <<>>
    ELSE LET e == ObjectEnd(ts, n)
         IN  <<DecodeObject(SubSeq(ts, n, e))>>
             \o DecodeObjects(ts, IF ts[e + 1] = Punct(",") THEN e + 2 ELSE e + 1)

json_loads(ts) ==
    CASE Head(ts) = Punct("[") -> PyList(DecodeObjects(ts, 2))
      [] Head(ts) = Punct("{") -> DecodeObject(ts)
      [] OTHER                 -> DecodeScalar(Head(ts))

(***************************************************************************)
(* Configuration and collaborators                                         *)
(***************************************************************************)
BUCKET == "bucket"

OK == 200
StatusCodes == {OK, 404, 503}

Bodies == { PyDict(<< <<"id", PyStr("abc")>>, <<"joke", PyStr("why did...")>> >>),
            PyDict(<< <<"id", PyStr("xyz")>>, <<"joke", PyStr("knock")>>,
                      <<"status", PyInt(OK)>> >>) }

ErrorBody == PyDict(<< <<"message", PyStr("error")>> >>)

\* What session.send can return.
HttpResponses ==
    {[status_code |-> OK, body |-> b] : b \in Bodies}
    \cup {[status_code |-> c, body |-> ErrorBody] : c \in StatusCodes \ {OK}}

\* uuid4(): an identifier that no other call returns. Identifiers are opaque,
\* so the one drawn in invocation i is called i.
uuid4(i) == i

\* What the storage client can do with one store_object.
StoreOutcomes == {"stored", "store raises"}
\* What the load job can do with one store_table.
LoadOutcomes == {"loaded", "load raises"}

NoBlob == [name |-> "", self_link |-> ""]
NoJob == [state |-> "", output_rows |-> 0]

\* vars(bq_res): the attributes of the job object, among them objects json
\* cannot serialise.
VarsOf(job) ==
    PyDict(<< <<"_client", PyObj("Client")>>,
              <<"_properties", PyDict(<< <<"state", PyStr(job.state)>>,
                                         <<"outputRows", PyInt(job.output_rows)>> >>)>> >>)

(***************************************************************************)
(* DadJoke                                                                 *)
(***************************************************************************)
\* Mutant: responses is one list shared by the objects (a class attribute, or a
\* mutable default argument), so a new object sees what the last one holds.
DadJoke_init_shared(objs) ==
    Append(objs, IF objs = <<>> THEN <<>> ELSE objs[Len(objs)])

\* DadJoke.__init__: a new object, whose responses is a new empty list.
DadJoke_init(objs) == Append(objs, <<>>)

\* DadJoke.timestamp: datetime.now(tz=self.tz).isoformat()
timestamp(t) == "T" \o ToString(t) \o "-05:00"

\* dict.update({key: val}) on a dict held as pairs in insertion order
Update(d, key, val) ==
    IF \E n \in 1..Len(d.items) : d.items[n][1] = key
    THEN PyDict([n \in 1..Len(d.items) |->
                    IF d.items[n][1] = key THEN <<key, val>> ELSE d.items[n]])
    ELSE PyDict(Append(d.items, <<key, val>>))

\* get, on a response that is not 200: the payload of the critical log
FailureLog(res, t) ==
    PyDict(<< <<"apiCallStatus", PyInt(res.status_code)>>,
              <<"attemptedAt", PyStr(timestamp(t))>> >>)

\* Mutant: the record is appended as received, without created.
Stamp_missing(res, t) == res.body

\* get, on a 200: data = res.json(); data.update({"created": time.time_ns()})
Stamp(res, t) == Update(res.body, "created", PyInt(t))

\* Mutant: a record equal to one already held is not appended again.
get_responses_dedup(rs, res, t) ==
    IF res.status_code # OK \/ (\E n \in 1..Len(rs) : rs[n] = Stamp(res, t))
    THEN rs ELSE Append(rs, Stamp(res, t))

\* Mutant: the accumulator is replaced by the new record (self.responses = [data]).
get_responses_reset(rs, res, t) ==
    IF res.status_code # OK THEN rs ELSE <<Stamp(res, t)>>

\* get: self.responses after the call, for response res received at time t
get_responses(rs, res, t) ==
    IF res.status_code # OK THEN rs ELSE Append(rs, Stamp(res, t))

\* Mutant: a fixed object name.
BlobName_fixed(u) == "responses.json"

\* store_object: name = f"{uuid4()}.json"
BlobName(u) == "uuid-" \o ToString(u) \o ".json"

\* Mutant: the last record is uploaded instead of the list.
BlobText_last(rs) == json_dumps(rs[Len(rs)], "None")

\* store_object: json.dumps(self.responses, indent=4)
BlobText(rs) == json_dumps(PyList(rs), "None")

\* store_table: the rows load_table_from_json sends, one JSON text per line
LoadPayload(rs) == [n \in 1..Len(rs) |-> json_dumps(rs[n], "None").text]

\* upload_from_string on a bucket: the object of that name is (re)written
Upload(bkt, name, text) == (name :> text) @@ bkt

\* the rows of a payload, each as often as the payload holds it
RECURSIVE RowsOf(_)
RowsOf(payload) ==
    IF payload = <<>> THEN EmptyBag
    ELSE SetToBag({DecodeObject(Head(payload))}) (+) RowsOf(Tail(payload))

\* WRITE_APPEND: the rows of the payload are added to the rows of the table
LoadAppend(tbl, payload) == tbl (+) RowsOf(payload)

\* __call__: the summary log
SummaryLog(b, e, blb, job) ==
    PyDict(<< <<"executionTime", PyInt(e - b)>>,
              <<"attemptedAt", PyStr(timestamp(e))>>,
              <<"status", PyStr("COMPLETE")>>,
              <<"gcsObject", PyDict(<< <<"gcsUri", PyStr("gs://" \o BUCKET \o "/" \o blb.name)>>,
                                       <<"gcsSelfLink", PyStr(blb.self_link)>> >>)>>,
              <<"bigQueryResult", PyText(json_dumps(VarsOf(job), "str").text)>> >>)

\* Mutant: the exception of a step is caught and the next step runs.
NextStep_swallow(step, ok) ==
    CASE step = "fetching" -> "storing"
      [] step = "storing"  -> "loading"
      [] step = "loading"  -> "logging"
      [] step = "logging"  -> "done"

\* Mutant: store_table is called before store_object.
NextStep_load_first(step, ok) ==
    IF ~ok THEN "failed"
    ELSE CASE step = "fetching" -> "loading"
           [] step = "loading"  -> "storing"
           [] step = "storing"  -> "logging"
           [] step = "logging"  -> "done"

\* Mutant: the summary is logged in a finally clause, also when a step raised.
NextStep_log_always(step, ok) ==
    IF ~ok THEN "logging"
    ELSE CASE step = "fetching" -> "storing"
           [] step = "storing"  -> "loading"
           [] step = "loading"  -> "logging"
           [] step = "logging"  -> "done"

\* __call__: the statement that follows a step; an exception of the step
\* propagates out of __call__ and out of entrypoint.
NextStep(step, ok) ==
    IF ~ok THEN "failed"
    ELSE CASE step = "fetching" -> "storing"
           [] step = "storing"  -> "loading"
           [] step = "loading"  -> "logging"
           [] step = "logging"  -> "done"

(***************************************************************************)
(* State                                                                   *)
(***************************************************************************)
NoCall == [method |-> "none", level |-> 0, msg |-> PyStr(""), args |-> <<>>,
           kwargs |-> NoKwargs]

Init ==
    /\ now = 0
    /\ responses = <<>>
    /\ pc = [i \in Inv |-> "idle"]
    /\ self = [i \in Inv |-> 0]
    /\ begin = [i \in Inv |-> 0]
    /\ blob = [i \in Inv |-> NoBlob]
    /\ bq_res = [i \in Inv |-> NoJob]
    /\ bucket = [n \in {} |-> <<>>]
    /\ table = EmptyBag
    /\ sink = [c \in Callers |-> <<>>]
    /\ trace = [i \in Inv |-> <<>>]
    /\ received = <<>>
    /\ uploaded = [i \in Inv |-> <<>>]
    /\ loaded = [i \in Inv |-> <<>>]
    /\ lcall = NoCall
    /\ lout = Raised("pending")

Running(i) == pc[i] \in {"fetching", "storing", "loading", "logging"}
Finished(i) == pc[i] \in {"done", "failed"}

\* What a JSONLogger call adds to the records caller c handed to the sink.
Emit(c, r) ==
    sink' = [sink EXCEPT ![c] = IF r.out = "forwarded" THEN Append(@, r) ELSE @]

(***************************************************************************)
(* Steps                                                                   *)
(***************************************************************************)
\* The clock advances, while a caller that will read it is under way.
Tick(reader) ==
    /\ reader
    /\ now < MaxTime
    /\ now' = now + 1
    /\ UNCHANGED <<responses, pc, self, begin, blob, bq_res, bucket, table,
                   sink, trace, received, uploaded, loaded, lcall, lout>>

\* entrypoint(request): joker = DadJoke(), about to call joker(request).
\* Invocations are numbered in the order they start.
Entrypoint(i) ==
    /\ pc[i] = "idle"
    /\ \A j \in Inv : j < i => pc[j] # "idle"
    /\ responses' = DadJoke_init(responses)
    /\ received' = Append(received, <<>>)
    /\ self' = [self EXCEPT ![i] = Len(responses) + 1]
    /\ pc' = [pc EXCEPT ![i] = "fetching"]
    /\ UNCHANGED <<now, begin, blob, bq_res, bucket, table, sink, trace, uploaded,
                   loaded, lcall, lout>>

\* self.get(), called by caller c on object o, receiving res
GetOn(c, o, res) ==
    /\ received' = [received EXCEPT ![o] =
                        Append(@, [status_code |-> res.status_code, body |-> res.body,
                                   at |-> now])]
    /\ responses' = [responses EXCEPT ![o] = get_responses(@, res, now)]
    /\ IF res.status_code # OK
       THEN Emit(c, critical(FailureLog(res, now), <<>>, NoKwargs))
       ELSE UNCHANGED sink

\* __call__: begin = time.time(); self.get()
Get(i) ==
    /\ pc[i] = "fetching"
    /\ begin' = [begin EXCEPT ![i] = now]
    /\ \E res \in HttpResponses :
          /\ GetOn(i, self[i], res)
          /\ trace' = [trace EXCEPT ![i] =
                          Append(@, IF res.status_code = OK THEN "get" ELSE "get raises")]
          /\ pc' = [pc EXCEPT ![i] = NextStep("fetching", res.status_code = OK)]
    /\ UNCHANGED <<now, self, blob, bq_res, bucket, table, uploaded,
                   loaded, lcall, lout>>

\* __call__: blob = self.store_object()
StoreObject(i) ==
    /\ pc[i] = "storing"
    /\ \E outcome \in StoreOutcomes :
          LET u == uuid4(i)
              name == BlobName(u)
              dumped == BlobText(responses[self[i]])
              ok == outcome = "stored" /\ dumped.ok
          IN  /\ uploaded' = [uploaded EXCEPT ![i] =
                                 IF ok THEN Append(@, dumped.text) ELSE @]
              /\ bucket' = IF ok THEN Upload(bucket, name, dumped.text) ELSE bucket
              /\ blob' = [blob EXCEPT ![i] =
                             IF ok THEN [name |-> name,
                                         self_link |-> "https://storage/" \o BUCKET \o "/" \o name]
                                   ELSE @]
              /\ trace' = [trace EXCEPT ![i] =
                              Append(@, IF ok THEN "store_object" ELSE "store_object raises")]
              /\ pc' = [pc EXCEPT ![i] = NextStep("storing", ok)]
    /\ UNCHANGED <<now, responses, self, begin, bq_res, table, sink, received, loaded,
                   lcall, lout>>

\* __call__: bq_res = self.store_table()
StoreTable(i) ==
    /\ pc[i] = "loading"
    /\ \E outcome \in LoadOutcomes :
          LET payload == LoadPayload(responses[self[i]])
              ok == outcome = "loaded"
          IN  /\ loaded' = [loaded EXCEPT ![i] = Append(@, payload)]
              /\ table' = IF ok THEN LoadAppend(table, payload) ELSE table
              /\ bq_res' = [bq_res EXCEPT ![i] =
                               IF ok THEN [state |-> "DONE", output_rows |-> Len(payload)]
                                     ELSE @]
              /\ trace' = [trace EXCEPT ![i] =
                              Append(@, IF ok THEN "store_table" ELSE "store_table raises")]
              /\ pc' = [pc EXCEPT ![i] = NextStep("loading", ok)]
    /\ UNCHANGED <<now, responses, self, begin, blob, bucket, sink, received,
                   uploaded, lcall, lout>>

\* __call__: end = time.time(); log = {...}; self.logger.info(log)
Summarize(i) ==
    /\ pc[i] = "logging"
    /\ Emit(i, info(SummaryLog(begin[i], now, blob[i], bq_res[i]), <<>>, NoKwargs))
    /\ pc' = [pc EXCEPT ![i] = NextStep("logging", TRUE)]
    /\ UNCHANGED <<now, responses, self, begin, blob, bq_res, bucket, table,
                   trace, received, uploaded, loaded, lcall, lout>>

\* Invocations of entrypoint, in parallel or one after the other.
Next ==
    \/ Tick(\E i \in Inv : Running(i))
    \/ \E i \in Inv : Entrypoint(i)
    \/ \E i \in Inv : Get(i)
    \/ \E i \in Inv : StoreObject(i)
    \/ \E i \in Inv : StoreTable(i)
    \/ \E i \in Inv : Summarize(i)

Spec == Init /\ [][Next]_vars

(***************************************************************************)
(* One object used directly: joker = DadJoke(), then joker.get() or        *)
(* joker(request) again and again                                          *)
(***************************************************************************)
\* joker = DadJoke()
Construct ==
    /\ responses = <<>>
    /\ responses' = DadJoke_init(responses)
    /\ received' = Append(received, <<>>)
    /\ UNCHANGED <<now, pc, self, begin, blob, bq_res, bucket, table, sink, trace,
                   uploaded, loaded, lcall, lout>>

MoreGets == Len(responses) = 1 /\ Len(received[1]) < MaxGets

\* joker.get(), called from outside __call__
DirectGet ==
    /\ MoreGets
    /\ \E res \in HttpResponses : GetOn(0, 1, res)
    /\ UNCHANGED <<now, pc, self, begin, blob, bq_res, bucket, table, trace,
                   uploaded, loaded, lcall, lout>>

NextGets ==
    \/ Construct
    \/ DirectGet
    \/ Tick(MoreGets)

SpecGets == Init /\ [][NextGets]_vars

\* joker(request), once the calls before it have ended. Calls are numbered in order.
Call(i) ==
    /\ Len(responses) = 1
    /\ pc[i] = "idle"
    /\ \A j \in Inv : j < i => Finished(j)
    /\ self' = [self EXCEPT ![i] = 1]
    /\ pc' = [pc EXCEPT ![i] = "fetching"]
    /\ UNCHANGED <<now, responses, begin, blob, bq_res, bucket, table, sink,
                   trace, received, uploaded, loaded, lcall, lout>>

NextReuse ==
    \/ Construct
    \/ Tick(\E i \in Inv : Running(i))
    \/ \E i \in Inv : Call(i)
    \/ \E i \in Inv : Get(i)
    \/ \E i \in Inv : StoreObject(i)
    \/ \E i \in Inv : StoreTable(i)
    \/ \E i \in Inv : Summarize(i)

SpecReuse == Init /\ [][NextReuse]_vars

(***************************************************************************)
(* JSONLogger called directly                                              *)
(***************************************************************************)
Methods == {"log", "debug", "info", "warning", "error", "critical"}
Levels == {DEBUG, INFO, WARNING, ERROR, CRITICAL}

LogPayloads ==
    { PyDict(<< <<"status", PyStr("COMPLETE")>> >>),
      PyDict(<< <<"apiCallStatus", PyInt(404)>>, <<"job", PyObj("LoadJob")>> >>),
      PyObj("datetime") }

LogArgs == { <<>>, <<"x">> }

\* the keyword arguments of a call: default and exc_info, each given or not
LogKwargs ==
    UNION { [names -> {"str", "repr", "None", "True"}] : names \in SUBSET {"default", "exc_info"} }

ValidKwargs(kw) ==
    /\ "default" \in DOMAIN kw => kw["default"] \in Converters
    /\ "exc_info" \in DOMAIN kw => kw["exc_info"] = "True"

LoggerCalls ==
    { c \in [method : Methods, level : Levels \cup {0}, msg : LogPayloads, args : LogArgs,
             kwargs : LogKwargs] :
        /\ ValidKwargs(c.kwargs)
        /\ (c.method = "log") = (c.level # 0) }

InitLogger ==
    /\ now = 0
    /\ responses = <<>>
    /\ pc = [i \in Inv |-> "idle"]
    /\ self = [i \in Inv |-> 0]
    /\ begin = [i \in Inv |-> 0]
    /\ blob = [i \in Inv |-> NoBlob]
    /\ bq_res = [i \in Inv |-> NoJob]
    /\ bucket = [n \in {} |-> <<>>]
    /\ table = EmptyBag
    /\ sink = [c \in Callers |-> <<>>]
    /\ trace = [i \in Inv |-> <<>>]
    /\ received = <<>>
    /\ uploaded = [i \in Inv |-> <<>>]
    /\ loaded = [i \in Inv |-> <<>>]
    /\ lcall \in LoggerCalls
    /\ lout = Raised("pending")

Pending(method) == lcall.method = method /\ lout.out = "pending"

CallLog ==
    /\ Pending("log")
    /\ lout' = log(lcall.level, lcall.msg, lcall.args, lcall.kwargs)
    /\ UNCHANGED <<flowVars, lcall>>

CallDebug ==
    /\ Pending("debug")
    /\ lout' = debug(lcall.msg, lcall.args, lcall.kwargs)
    /\ UNCHANGED <<flowVars, lcall>>

CallInfo ==
    /\ Pending("info")
    /\ lout' = info(lcall.msg, lcall.args, lcall.kwargs)
    /\ UNCHANGED <<flowVars, lcall>>

CallWarning ==
    /\ Pending("warning")
    /\ lout' = warning(lcall.msg, lcall.args, lcall.kwargs)
    /\ UNCHANGED <<flowVars, lcall>>

CallError ==
    /\ Pending("error")
    /\ lout' = error(lcall.msg, lcall.args, lcall.kwargs)
    /\ UNCHANGED <<flowVars, lcall>>

CallCritical ==
    /\ Pending("critical")
    /\ lout' = critical(lcall.msg, lcall.args, lcall.kwargs)
    /\ UNCHANGED <<flowVars, lcall>>

NextLogger ==
    \/ CallLog
    \/ CallDebug
    \/ CallInfo
    \/ CallWarning
    \/ CallError
    \/ CallCritical

SpecLogger == InitLogger /\ [][NextLogger]_vars

(***************************************************************************)
(* Properties                                                              *)
(***************************************************************************)
\* the text holds  "key": tok
HasField(text, key, tok) ==
    \E n \in 1..(Len(text) - 2) :
        text[n] = StrTok(key) /\ text[n + 1] = Punct(":") /\ text[n + 2] = tok

IsComplete(r) == r.level = INFO /\ HasField(r.msg, "status", StrTok("COMPLETE"))

\* how many of the records invocation i handed to the sink are summaries
Completes(i) == Cardinality({n \in 1..Len(sink[i]) : IsComplete(sink[i][n])})

\* the record a 200 response r must leave in the accumulator: the body, then created
RecordOf(r) == PyDict(Append(r.body.items, <<"created", PyInt(r.at)>>))

\* the 200 responses among those object o received, in order
Successes(o) == SelectSeq(received[o], LAMBDA r : r.status_code = OK)

\* x is the list of the values xs
IsListOf(x, xs) == x.t = "list" /\ x.items = xs

\* the rows of a load payload
Rows(payload) == [n \in 1..Len(payload) |-> json_loads(payload[n])]

Started(i) == self[i] # 0
FullRun == <<"get", "store_object", "store_table">>

\* C1: an invocation whose fetch received a status other than 200 has called
\* neither store_object nor store_table, has written no blob and sent no load,
\* and has handed the sink exactly one record, of level 50, whose payload
\* carries the status code received; the invocation has ended with the error.
C1_FailureShortCircuit ==
    \A i \in Inv :
        (Started(i) /\ received[self[i]] # <<>>
         /\ received[self[i]][1].status_code # OK)
        => /\ trace[i] = <<"get raises">>
           /\ pc[i] = "failed"
           /\ uploaded[i] = <<>> /\ loaded[i] = <<>>
           /\ blob[i] = NoBlob /\ bq_res[i] = NoJob
           /\ Len(sink[i]) = 1
           /\ sink[i][1].level = CRITICAL
           /\ HasField(sink[i][1].msg, "apiCallStatus",
                       IntTok(received[self[i]][1].status_code))

\* C1 witness: one invocation ended on a 503 while another stored its blob.
C1_Witness ==
    \E i, j \in Inv :
        /\ Started(i) /\ received[self[i]] # <<>>
        /\ received[self[i]][1].status_code = 503
        /\ pc[i] = "failed"
        /\ blob[j] # NoBlob

LegalTraces ==
    { <<>>, <<"get raises">>, <<"get">>,
      <<"get", "store_object raises">>, <<"get", "store_object">>,
      <<"get", "store_object", "store_table raises">>, FullRun }

Raises(e) == e \in {"get raises", "store_object raises", "store_table raises"}

\* C2: the steps of an invocation run in the order get, store_object,
\* store_table; a step starts only after the one before it returned, and once a
\* step has raised the invocation has ended and no later step runs.
C2_StepOrder ==
    \A i \in Inv :
        /\ trace[i] \in LegalTraces
        /\ uploaded[i] # <<>> => (Len(trace[i]) >= 2 /\ trace[i][1] = "get")
        /\ loaded[i] # <<>> => (Len(trace[i]) >= 3 /\ trace[i][2] = "store_object")
        /\ (trace[i] # <<>> /\ Raises(trace[i][Len(trace[i])])) => pc[i] = "failed"
        /\ pc[i] = "storing" => trace[i] = <<"get">>
        /\ pc[i] = "loading" => trace[i] = <<"get", "store_object">>
        /\ pc[i] \in {"logging", "done"} => trace[i] = FullRun

\* C2 witness: one invocation ran all three steps, another ended when its load raised.
C2_Witness ==
    \E i, j \in Inv :
        /\ pc[i] = "done" /\ trace[i] = FullRun
        /\ pc[j] = "failed" /\ trace[j] = <<"get", "store_object", "store_table raises">>

\* C3: an invocation hands the sink at most one summary (level 20, status
\* COMPLETE); one that ended well has handed exactly one, and one whose get,
\* store_object or store_table raised has handed none, nor any other record of
\* level 20.
C3_CompleteIffAllSucceeded ==
    \A i \in Inv :
        /\ Completes(i) <= 1
        /\ pc[i] = "done" => (Completes(i) = 1 /\ trace[i] = FullRun)
        /\ Completes(i) = 1 => (pc[i] = "done" /\ trace[i] = FullRun)
        /\ pc[i] = "failed" => \A n \in 1..Len(sink[i]) : sink[i][n].level # INFO
        /\ Finished(i) => (Completes(i) = 1 <=> trace[i] = FullRun)

\* C3 witness: one invocation logged its summary, another ended when its upload raised.
C3_Witness ==
    \E i, j \in Inv :
        /\ pc[i] = "done" /\ Completes(i) = 1
        /\ pc[j] = "failed" /\ trace[j] = <<"get", "store_object raises">>

\* C4: after a get that received a 200 on a new object, the accumulator holds
\* exactly one record, the body followed by created; the text a following
\* store_object uploads, and the bucket then holds, parses to the list of
\* exactly that record.
C4_OneRecordStored ==
    \A i \in Inv :
        (Started(i) /\ received[self[i]] # <<>> /\ received[self[i]][1].status_code = OK)
        => /\ responses[self[i]] = <<RecordOf(received[self[i]][1])>>
           /\ \A n \in 1..Len(uploaded[i]) :
                 IsListOf(json_loads(uploaded[i][n]), <<RecordOf(received[self[i]][1])>>)
           /\ blob[i] # NoBlob =>
                 /\ Len(uploaded[i]) = 1
                 /\ blob[i].name \in DOMAIN bucket
                 /\ IsListOf(json_loads(bucket[blob[i].name]),
                             <<RecordOf(received[self[i]][1])>>)

\* C4 witness: an invocation has uploaded the record of a three-field body.
C4_Witness ==
    \E i \in Inv :
        /\ blob[i] # NoBlob
        /\ Len(responses[self[i]]) = 1
        /\ Len(responses[self[i]][1].items) = 4

\* C5: an invocation of entrypoint starts with an empty batch, whatever the
\* invocations before it did, and the batch holds exactly one record when
\* store_object and store_table read it.
C5_FreshBatch ==
    \A i \in Inv :
        /\ pc[i] = "fetching" => responses[self[i]] = <<>>
        /\ pc[i] \in {"storing", "loading"} => Len(responses[self[i]]) = 1
        /\ \A n \in 1..Len(uploaded[i]) :
              LET x == json_loads(uploaded[i][n]) IN x.t = "list" /\ Len(x.items) = 1
        /\ \A n \in 1..Len(loaded[i]) : Len(loaded[i][n]) = 1

\* C5 witness: an invocation is about to load, after one invocation that ended
\* well and (with three invocations or more) one that failed.
C5_Witness ==
    \E i, j \in Inv :
        /\ j < i
        /\ pc[j] = "done"
        /\ pc[i] = "loading"
        /\ uploaded[i] # <<>>

\* C6: the accumulator of an object holds one record for each 200 its gets
\* received, in the order received and without deduplication; a get that
\* received another status added nothing.
C6_OneRecordPerSuccess ==
    \A o \in 1..Len(responses) :
        /\ Len(responses[o]) = Len(Successes(o))
        /\ \A n \in 1..Len(responses[o]) : responses[o][n] = RecordOf(Successes(o)[n])

\* C6 witness: three gets, of which the first and the last received the same
\* body at the same time and the second failed.
C6_Witness ==
    /\ Len(responses) = 1
    /\ Len(received[1]) = 3
    /\ received[1][2].status_code # OK
    /\ Len(responses[1]) = 2
    /\ responses[1][1] = responses[1][2]

LevelOf(method) ==
    CASE method = "debug"    -> DEBUG
      [] method = "info"     -> INFO
      [] method = "warning"  -> WARNING
      [] method = "error"    -> ERROR
      [] method = "critical" -> CRITICAL

\* C7 (as claimed): a convenience method does exactly what log does with that
\* method's level and the same payload, positional and keyword arguments.
C7_ConvenienceIsLog ==
    (lcall.method # "log" /\ lout.out # "pending")
    => lout = log(LevelOf(lcall.method), lcall.msg, lcall.args, lcall.kwargs)

\* C8: invocations running in parallel work on different objects; what an
\* invocation uploads and loads is the one record it fetched; the blobs of
\* different invocations have different names, and the bucket holds under an
\* invocation's blob name what that invocation uploaded.
C8_ParallelIndependent ==
    \A i \in Inv :
        /\ \A j \in Inv : (i # j /\ Started(i) /\ Started(j)) => self[i] # self[j]
        /\ \A j \in Inv : (i # j /\ blob[i] # NoBlob /\ blob[j] # NoBlob)
                              => blob[i].name # blob[j].name
        /\ \A n \in 1..Len(uploaded[i]) :
              IsListOf(json_loads(uploaded[i][n]), <<RecordOf(received[self[i]][1])>>)
        /\ \A n \in 1..Len(loaded[i]) :
              Rows(loaded[i][n]) = <<RecordOf(received[self[i]][1])>>
        /\ blob[i] # NoBlob =>
              /\ blob[i].name \in DOMAIN bucket
              /\ bucket[blob[i].name] = uploaded[i][1]

\* C8 witness: two invocations are under way at once, with different records,
\* one having uploaded and loaded, the other having uploaded.
C8_Witness ==
    \E i, j \in Inv :
        /\ pc[i] = "logging" /\ pc[j] = "loading"
        /\ responses[self[i]] # responses[self[j]]
        /\ bucket[blob[i].name] # bucket[blob[j].name]

\* the time each 200 of object o was received
FetchTimes(o) == [n \in 1..Len(Successes(o)) |-> Successes(o)[n].at]

HasCreated(rec) ==
    \E m \in 1..Len(rec.items) : rec.items[m][1] = "created" /\ rec.items[m][2].t = "int"
Created(rec) ==
    rec.items[CHOOSE m \in 1..Len(rec.items) : rec.items[m][1] = "created"][2].n

\* every record of recs carries created, the n-th the time of the n-th 200 of o
StampedAtFetch(recs, o) ==
    /\ Len(recs) = Len(Successes(o))
    /\ \A n \in 1..Len(recs) : HasCreated(recs[n]) /\ Created(recs[n]) = FetchTimes(o)[n]

C9_StampedWhenRead ==
    \A i \in Inv :
        /\ Started(i) => StampedAtFetch(responses[self[i]], self[i])
        /\ \A n \in 1..Len(uploaded[i]) :
              StampedAtFetch(json_loads(uploaded[i][n]).items, self[i])
        /\ \A n \in 1..Len(loaded[i]) : StampedAtFetch(Rows(loaded[i][n]), self[i])
        /\ (uploaded[i] # <<>> /\ loaded[i] # <<>>)
              => json_loads(uploaded[i][1]).items = Rows(loaded[i][1])

C9_StoresLeaveAccumulator ==
    (\E i \in Inv : StoreObject(i) \/ StoreTable(i)) => responses' = responses

\* C9: whenever store_object or store_table reads the accumulator, every record
\* carries created, whose value is the time of the get that appended the
\* record; the record uploaded and the record loaded carry the same value; and
\* store_object and store_table leave the accumulator as it is.
C9_CreatedAtFetch == []C9_StampedWhenRead /\ [][C9_StoresLeaveAccumulator]_vars

\* C9 witness: a record fetched at time 0 has been uploaded and loaded, at time 1.
C9_Witness ==
    \E i \in Inv :
        /\ now = 1
        /\ loaded[i] # <<>> /\ uploaded[i] # <<>>
        /\ Created(responses[self[i]][1]) = 0
        /\ begin[i] = 0

\* the calls 1..k have all ended well
AllDone(k) == \A j \in 1..k : pc[j] = "done"

\* the rows loaded by the calls 1..k together
RECURSIVE LoadedUpTo(_)
LoadedUpTo(k) ==
    IF k = 0 THEN EmptyBag ELSE LoadedUpTo(k - 1) (+) RowsOf(loaded[k][1])

\* C10: when one object has been called k times, each time with success, call
\* j has uploaded and loaded the first j records of the accumulator, so the
\* record of call i has been loaded k - i + 1 times and the table holds all
\* these rows.
C10_ReloadsEarlierRecords ==
    \A k \in Inv :
        AllDone(k)
        => /\ Len(responses[1]) >= k
           /\ \A j \in 1..k :
                 /\ Len(uploaded[j]) = 1 /\ Len(loaded[j]) = 1
                 /\ IsListOf(json_loads(uploaded[j][1]), SubSeq(responses[1], 1, j))
                 /\ Rows(loaded[j][1]) = SubSeq(responses[1], 1, j)
           /\ \A i \in 1..k :
                 Cardinality({j \in 1..k : /\ i <= Len(loaded[j][1])
                                           /\ json_loads(loaded[j][1][i]) = responses[1][i]})
                     = k - i + 1
           /\ (\A j \in Inv : j > k => bq_res[j] = NoJob)
                 => /\ table = LoadedUpTo(k)
                    /\ BagCardinality(table) = (k * (k + 1)) \div 2

\* C10 witness: every call the bound allows has ended well, at least two of them.
C10_Witness ==
    /\ MaxInvocations >= 2
    /\ Len(responses) = 1
    /\ AllDone(MaxInvocations)
    /\ BagCardinality(table) >= 3

====
